---- MODULE Spec2Model ----
(***************************************************************************)
(* Model of the Telegram reply dispatch of openclaw:                       *)
(*   src/src/telegram/bot-message-dispatch.ts  (dispatchTelegramMessage)   *)
(* One turn: partial / reasoning events drive the draft, the terminal      *)
(* event drives the delivery of the final payloads, then the post-dispatch *)
(* side effects run.  Texts are sequences of one-character strings.        *)
(* The collaborators whose code is not part of the sources (the block      *)
(* chunker, the draft stream, the buffered reply dispatcher, deliverReplies*)
(* and the ack-reaction helper) are modelled from their documented         *)
(* contract.                                                               *)
(***************************************************************************)
EXTENDS Integers, Sequences, FiniteSets, TLC

VARIABLES
  config,          \* streamMode and the channel facts read at lines 45-51, 63-67
  draftStream,     \* the draft controller of the turn (line 52), or the absent one
  chunkBuf,        \* text buffered in draftChunker (line 67)
  lastPartialText, \* line 68
  lastSeen,        \* the last non-empty partial text of the reply stream
  resetSeen,       \* the partial stream has restarted non-monotonically
  draftText,       \* line 69
  pc,              \* position of dispatchTelegramMessage / of the reply dispatcher
  terminal,        \* terminal event of the reply stream seen so far
  payloads,        \* final payloads of the terminal event not yet handed to deliver
  delivering,      \* the payload the deliver callback is working on, 0 when none
  deliverSteps,    \* steps of the deliver callback call in progress (or last one)
  deliverCalls,    \* number of deliver callback invocations
  sends,           \* outcome of every deliverReplies call, in order
  errorLog,        \* runtime.error reports made by onError, in order
  queuedFinal,     \* result of the reply dispatcher (line 128)
  ackRemoval,      \* state of removeAckReactionAfterReply (line 183)
  cancelled,       \* the turn was cancelled externally
  events,          \* number of stream events consumed
  deliverKind,     \* info.kind of the deliver call in progress (or last one)
  history,         \* groupHistories: entries buffered per history key, and the
                   \* number of clearHistoryEntriesIfEnabled calls
  typing,          \* the typing cue of onReplyStart
  cosmeticLog,     \* logVerbose reports of cosmetic failures, in order
  turns,           \* closure state of concurrently running turns, per scope
  pendingDeliver,  \* the process-wide pendingDeliver map
  deliverCandidatesStore, \* the process-wide deliverCandidatesStore map
  timers,          \* setTimeout callbacks not yet run
  now,             \* the clock, in ticks
  consumed,        \* number of map writes so far, and the records that calls
                   \* of getAndClearPendingDeliver returned, each with its caller
  ownerNumbers,    \* params.ownerNumbers of buildAgentSystemPrompt
  toolParams,      \* params.toolNames, toolSummaries and skillsPrompt (given or not)
  prompt,          \* the lines buildAgentSystemPrompt emits for the owner section
                   \* and for the tools
  request,         \* the arguments of resolveModel and what its collaborators
                   \* (config, model registry, forward-compat resolver) hold
  resolved         \* the value resolveModel returned

pendingVars == <<pendingDeliver, deliverCandidatesStore, timers, now, consumed>>
ownerVars == <<ownerNumbers, toolParams, prompt>>
modelVars == <<request, resolved>>
sideVars == <<turns, pendingVars, ownerVars, modelVars>>

dispatchVars ==
  <<config, draftStream, chunkBuf, lastPartialText, lastSeen, resetSeen,
    draftText, pc, terminal, payloads, delivering, deliverSteps, deliverCalls,
    sends, errorLog, queuedFinal, ackRemoval, cancelled, events, deliverKind,
    history, typing, cosmeticLog>>

vars == <<dispatchVars, sideVars>>

streamVars == <<lastSeen, resetSeen, events>>
partialVars == <<chunkBuf, lastPartialText, draftText>>
deliveryVars == <<payloads, delivering, deliverSteps, deliverCalls, sends, errorLog>>

----------------------------------------------------------------------------
(* Bounds *)

MaxLen == 2
MaxEvents == 3
MaxPayloads == 2

----------------------------------------------------------------------------
(* Texts *)

Letter == "a"
Break == "n"
Chars == {Letter, Break}
Empty == <<>>

Texts == UNION {[1..k -> Chars] : k \in 0..MaxLen}
ReasoningTexts == {Empty, <<"r">>}
StreamModes == {"off", "partial", "block"}

StartsWith(text, prefix) ==
  /\ Len(prefix) <= Len(text)
  /\ SubSeq(text, 1, Len(prefix)) = prefix

Slice(text, from) == SubSeq(text, from + 1, Len(text))

----------------------------------------------------------------------------
(* Chunk splitter (EmbeddedBlockChunker), from its contract: append buffers *)
(* a delta; a non-forced drain emits only chunks that end at a safe         *)
(* boundary (here: a paragraph break), or the head of an over-large buffer, *)
(* and keeps the remainder; a forced drain emits everything that is         *)
(* buffered; reset discards the buffer.                                     *)

ChunkMaxChars == 1

ChunkerAppend(buf, delta) == buf \o delta

ChunkerHasBuffered(buf) == Len(buf) > 0

ChunkerReset(buf) == Empty

BreakIndex(buf) ==
  IF \E i \in 1..Len(buf) : buf[i] = Break
  THEN CHOOSE i \in 1..Len(buf) :
         /\ buf[i] = Break
         /\ \A j \in 1..(i - 1) : buf[j] # Break
  ELSE 0

RECURSIVE ChunkerDrain(_)
ChunkerDrain(buf) ==
  LET cut == IF BreakIndex(buf) > 0 THEN BreakIndex(buf)
             ELSE IF Len(buf) > ChunkMaxChars THEN ChunkMaxChars
             ELSE 0
  IN IF cut = 0
     THEN [chunks |-> <<>>, rest |-> buf]
     ELSE LET more == ChunkerDrain(Slice(buf, cut))
          IN [chunks |-> <<SubSeq(buf, 1, cut)>> \o more.chunks, rest |-> more.rest]

ChunkerDrainForced(buf) ==
  [chunks |-> IF Len(buf) > 0 THEN <<buf>> ELSE <<>>, rest |-> Empty]

----------------------------------------------------------------------------
(* Draft controller (createTelegramDraftStream), from its contract: update  *)
(* starts an edit, or queues the text when an edit is in flight (a later    *)
(* text supersedes a queued one); flush returns once nothing is in flight   *)
(* or queued; stop is idempotent and ends future edits.  pending, inFlight  *)
(* and lastUpdate hold zero or one text; updatesInStep lists the texts      *)
(* passed to update by the handler that ran last.                           *)

NoDraft ==
  [exists |-> FALSE, stopped |-> FALSE, pending |-> <<>>, inFlight |-> <<>>,
   transport |-> Empty, lastUpdate |-> <<>>, updatesInStep |-> <<>>]

NewDraft == [NoDraft EXCEPT !.exists = TRUE]

\* every update calls the transport at once, whatever is in flight
DraftUpdateUncoalesced(d, text) ==
  [d EXCEPT !.lastUpdate = <<text>>,
            !.updatesInStep = Append(@, text),
            !.inFlight = Append(@, text)]

DraftUpdate(d, text) ==
  LET seen == [d EXCEPT !.lastUpdate = <<text>>,
                        !.updatesInStep = Append(@, text)]
  IN IF d.stopped THEN seen
     ELSE IF d.inFlight = <<>> THEN [seen EXCEPT !.inFlight = <<text>>]
     ELSE [seen EXCEPT !.pending = <<text>>]

\* a handler starts: nothing passed to update yet
DraftEnter(d) == [d EXCEPT !.updatesInStep = <<>>]

\* a repeated stop sends the last text once more
DraftStopResends(d) ==
  [d EXCEPT !.stopped = TRUE,
            !.pending = <<>>,
            !.inFlight = IF d.stopped THEN d.lastUpdate ELSE @]

DraftStop(d) == [d EXCEPT !.stopped = TRUE, !.pending = <<>>]

\* flush returns without waiting for the transport
DraftFlushedEarly(d) == TRUE

DraftFlushed(d) == d.inFlight = <<>> /\ d.pending = <<>>

DraftEditDone(d) ==
  [d EXCEPT !.transport = Head(d.inFlight),
            !.inFlight = d.pending,
            !.pending = <<>>]

----------------------------------------------------------------------------
(* dispatchTelegramMessage: construction (lines 45-69) *)

\* the chat type and the thread are not looked at
CanStreamDraftAnyChat(c) == c.streamMode # "off"

CanStreamDraft(c) ==
  /\ c.streamMode # "off"
  /\ c.isPrivateChat
  /\ c.threadIsNumber
  /\ c.botTopicsEnabled

\* lines 63-67: draftChunking is resolved only for a draft in block mode
MayResolveChunking(c) == CanStreamDraft(c) /\ c.streamMode = "block"

HasChunker == config.chunking

\* groupHistories (line 35) holds the entries of the turn's history key and
\* those of another conversation
HistoryKeys == {"turn", "other"}

\* historyLimit (line 34): 0 disables the history, a positive limit enables it
HistoryLimits == {0, 1}

\* ../auto-reply/reply/history.js: drops the buffered entries of one key,
\* unless the history is disabled by its limit
ClearHistoryEntriesIfEnabled(h, key, limit) ==
  [entries |-> IF limit <= 0 THEN h.entries ELSE [h.entries EXCEPT ![key] = 0],
   clears |-> h.clears + 1]

NoHistoryCalls == [entries |-> [k \in HistoryKeys |-> 1], clears |-> 0]

\* no other turn is running
TurnsIdle == turns = <<>>

\* the process-wide maps at module load, no timer set
PendingIdle ==
  /\ pendingDeliver = <<>>
  /\ deliverCandidatesStore = <<>>
  /\ timers = {}
  /\ now = 0
  /\ consumed = [writes |-> 0, got |-> {}]

\* no system prompt is being built
OwnerIdle ==
  /\ ownerNumbers = [given |-> FALSE, values |-> <<>>]
  /\ toolParams = [toolNames |-> <<>>, toolSummaries |-> <<>>, skillsPrompt |-> FALSE]
  /\ prompt = [built |-> FALSE, lines |-> <<>>, toolLines |-> <<>>,
               skillsLine |-> <<>>]

\* resolveModel is not called
ModelIdle ==
  /\ request = [provider |-> <<>>, modelId |-> <<>>, providers |-> <<>>,
                found |-> "null", forwardCompat |-> FALSE]
  /\ resolved = [done |-> FALSE]

\* the side state that dispatchTelegramMessage never touches
SideIdle == TurnsIdle /\ PendingIdle /\ OwnerIdle /\ ModelIdle

InitDispatch ==
  /\ config \in [streamMode : StreamModes, isPrivateChat : BOOLEAN,
                 threadIsNumber : BOOLEAN, botTopicsEnabled : BOOLEAN,
                 chunking : BOOLEAN, isGroup : BOOLEAN,
                 hasHistoryKey : BOOLEAN, historyLimit : HistoryLimits]
  /\ config.chunking => MayResolveChunking(config)
  /\ config.isGroup => ~config.isPrivateChat
  \* the limit is read only by the clear call of a group with a key
  /\ config.historyLimit = 0 => config.isGroup /\ config.hasHistoryKey
  /\ history = NoHistoryCalls
  /\ deliverKind = "none"
  /\ typing = "idle"
  /\ cosmeticLog = <<>>
  /\ draftStream = IF CanStreamDraft(config) THEN NewDraft ELSE NoDraft
  /\ chunkBuf = Empty
  /\ lastPartialText = Empty
  /\ lastSeen = Empty
  /\ resetSeen = FALSE
  /\ draftText = Empty
  /\ pc = "streaming"
  /\ terminal = [kind |-> "pending", count |-> 0]
  /\ payloads = <<>>
  /\ delivering = 0
  /\ deliverSteps = <<>>
  /\ deliverCalls = 0
  /\ sends = <<>>
  /\ errorLog = <<>>
  /\ queuedFinal = FALSE
  /\ ackRemoval = [triggers |-> 0, outcome |-> "none"]
  /\ cancelled = FALSE
  /\ events = 0

Init == InitDispatch /\ SideIdle

\* one turn that has not started, for the specifications of the side state
DispatchIdle ==
  /\ InitDispatch
  /\ config.streamMode = "off"
  /\ ~config.isPrivateChat /\ ~config.threadIsNumber /\ ~config.botTopicsEnabled
  /\ ~config.isGroup /\ config.hasHistoryKey

----------------------------------------------------------------------------
(* updateDraftFromPartial (lines 70-101) *)

\* the reset branch is never taken
IsStreamResetNever(text, last) == FALSE

IsStreamReset(text, last) == ~StartsWith(text, last)

\* the delta is not sliced off the previous partial text
PartialDeltaWhole(text, last) == text

PartialDelta(text, last) ==
  IF StartsWith(text, last) THEN Slice(text, Len(last)) ELSE text

\* the emit callback of the non-forced drain (lines 96-99), once per chunk
RECURSIVE EmitChunks(_, _, _)
EmitChunks(chunks, text, d) ==
  IF chunks = <<>>
  THEN [text |-> text, draft |-> d]
  ELSE EmitChunks(Tail(chunks), text \o Head(chunks),
                  DraftUpdate(d, text \o Head(chunks)))

\* the variables captured by the callbacks of one dispatchTelegramMessage
\* call (lines 52-69): draftStream, streamMode, draftChunker and the two lets
Closure ==
  [last |-> lastPartialText, text |-> draftText, buf |-> chunkBuf,
   draft |-> draftStream, mode |-> config.streamMode, chunking |-> HasChunker]

\* a handler starts on the closure
Entered(c) == [c EXCEPT !.draft = DraftEnter(@)]

\* a repeated text is not recognised
IsRepeatedPartialNever(text, last) == FALSE

\* line 72
IsRepeatedPartial(text, last) == text = last

UpdateDraftFromPartial(text, c) ==
  IF ~c.draft.exists \/ text = Empty THEN c
  ELSE IF IsRepeatedPartial(text, c.last) THEN c
  ELSE IF c.mode = "partial"
       THEN [c EXCEPT !.last = text, !.draft = DraftUpdate(c.draft, text)]
  ELSE LET reset == IsStreamReset(text, c.last)
           delta == PartialDelta(text, c.last)
           buf0 == IF reset THEN ChunkerReset(c.buf) ELSE c.buf
           text0 == IF reset THEN Empty ELSE c.text
       IN IF delta = Empty
          THEN [c EXCEPT !.last = text, !.text = text0, !.buf = buf0]
          ELSE IF ~c.chunking
          THEN [c EXCEPT !.last = text, !.text = text, !.buf = buf0,
                         !.draft = DraftUpdate(c.draft, text)]
          ELSE LET drained == ChunkerDrain(ChunkerAppend(buf0, delta))
                   emitted == EmitChunks(drained.chunks, text0, c.draft)
               IN [c EXCEPT !.last = text, !.text = emitted.text,
                              !.buf = drained.rest, !.draft = emitted.draft]

\* replyOptions.onPartialReply (line 164)
OnPartialReply(text) ==
  /\ pc = "streaming"
  /\ events < MaxEvents
  /\ events' = events + 1
  /\ lastSeen' = IF text # Empty THEN text ELSE lastSeen
  /\ resetSeen' = (resetSeen \/ (text # Empty /\ ~StartsWith(text, lastSeen)))
  /\ LET next == UpdateDraftFromPartial(text, Entered(Closure))
     IN /\ lastPartialText' = next.last
        /\ draftText' = next.text
        /\ chunkBuf' = next.buf
        /\ draftStream' = next.draft
  /\ UNCHANGED <<config, sideVars, deliverKind, history, typing, cosmeticLog, pc, terminal, deliveryVars, queuedFinal, ackRemoval, cancelled>>

\* the text is passed on even when empty
ForwardsReasoningAlways(text) == TRUE

\* line 167: if (payload.text)
ForwardsReasoning(text) == text # Empty

\* replyOptions.onReasoningStream (lines 165-169)
OnReasoningStream(text) ==
  /\ pc = "streaming"
  /\ events < MaxEvents
  /\ events' = events + 1
  /\ draftStream' = IF draftStream.exists /\ ForwardsReasoning(text)
                    THEN DraftUpdate(DraftEnter(draftStream), text)
                    ELSE DraftEnter(draftStream)
  /\ UNCHANGED <<config, sideVars, deliverKind, history, typing, cosmeticLog, partialVars, lastSeen, resetSeen, pc, terminal, deliveryVars,
                 queuedFinal, ackRemoval, cancelled>>

\* the transport answers the edit in flight (draft stream)
EditComplete ==
  /\ draftStream.inFlight # <<>>
  /\ draftStream' = DraftEditDone(draftStream)
  /\ UNCHANGED <<config, sideVars, deliverKind, history, typing, cosmeticLog, partialVars, streamVars, pc, terminal, deliveryVars,
                 queuedFinal, ackRemoval, cancelled>>

\* the transport rejects the edit in flight: the draft stream reports it to
\* its log sink (lines 59-60) and goes on with the queued text
DraftEditFailed(d) == [d EXCEPT !.inFlight = d.pending, !.pending = <<>>]

EditFails ==
  /\ draftStream.inFlight # <<>>
  /\ draftStream' = DraftEditFailed(draftStream)
  /\ cosmeticLog' = Append(cosmeticLog, "edit")
  /\ UNCHANGED <<config, sideVars, deliverKind, history, typing, partialVars,
                 streamVars, pc, terminal, deliveryVars, queuedFinal, ackRemoval,
                 cancelled>>

\* the failure of the typing cue is dropped without a report
OnStartErrorSilent(log) == log

\* onStartError (lines 157-159): logVerbose is called
OnStartError(log) == Append(log, "typing")

\* dispatcherOptions.onReplyStart (lines 155-160), when the reply starts:
\* sendTyping succeeds, or fails and createTypingCallbacks hands the error
\* to onStartError
ReplyStart(ok) ==
  /\ pc = "streaming"
  /\ events = 0
  /\ typing = "idle"
  /\ typing' = IF ok THEN "started" ELSE "failed"
  /\ cosmeticLog' = IF ok THEN cosmeticLog ELSE OnStartError(cosmeticLog)
  /\ UNCHANGED <<config, sideVars, deliverKind, history, draftStream, partialVars,
                 streamVars, pc, terminal, deliveryVars, queuedFinal, ackRemoval,
                 cancelled>>

----------------------------------------------------------------------------
(* Reply dispatcher (dispatchReplyWithBufferedBlockDispatcher), from its    *)
(* contract: after the partial stream has settled, a terminal "final" event *)
(* hands each payload to deliver, one after the other, and reports          *)
(* queuedFinal true; "none", or a stream that just ends, reports            *)
(* queuedFinal false; a failing reply generation rejects the awaited call.  *)

TerminalFinal(n) ==
  /\ pc = "streaming"
  /\ terminal' = [kind |-> "final", count |-> n]
  /\ payloads' = [i \in 1..n |-> i]
  /\ pc' = "deliver"
  /\ UNCHANGED <<config, sideVars, deliverKind, history, typing, cosmeticLog, draftStream, partialVars, streamVars, delivering, deliverSteps,
                 deliverCalls, sends, errorLog, queuedFinal, ackRemoval, cancelled>>

TerminalNone ==
  /\ pc = "streaming"
  /\ terminal' = [kind |-> "none", count |-> 0]
  /\ queuedFinal' = FALSE
  /\ pc' = "dispatched"
  /\ UNCHANGED <<config, sideVars, deliverKind, history, typing, cosmeticLog, draftStream, partialVars, streamVars, deliveryVars, ackRemoval,
                 cancelled>>

StreamEnds ==
  /\ pc = "streaming"
  /\ terminal' = [kind |-> "eof", count |-> 0]
  /\ queuedFinal' = FALSE
  /\ pc' = "dispatched"
  /\ UNCHANGED <<config, sideVars, deliverKind, history, typing, cosmeticLog, draftStream, partialVars, streamVars, deliveryVars, ackRemoval,
                 cancelled>>

\* the awaited dispatcher call of line 128 rejects: lines 176-197 never run
DispatcherFails ==
  /\ pc = "streaming"
  /\ terminal' = [kind |-> "error", count |-> 0]
  /\ pc' = "threw"
  /\ UNCHANGED <<config, sideVars, deliverKind, history, typing, cosmeticLog, draftStream, partialVars, streamVars, deliveryVars, queuedFinal,
                 ackRemoval, cancelled>>

----------------------------------------------------------------------------
(* flushDraft (lines 102-115) and dispatcherOptions.deliver (lines 134-151) *)

\* the kind test never matches
FlushesDraftForNothing(kind) == FALSE

\* line 135
FlushesDraftFor(kind) == kind = "final"

\* line 104
NeedsForcedDrain(c) == c.chunking /\ ChunkerHasBuffered(c.buf)

\* the emit callback of the forced drain (lines 107-109)
RECURSIVE AppendChunks(_, _)
AppendChunks(chunks, text) ==
  IF chunks = <<>> THEN text ELSE AppendChunks(Tail(chunks), text \o Head(chunks))

\* flushDraft up to its await of draftStream.flush() (lines 103-114)
FlushDraft(c) ==
  IF ~c.draft.exists
  THEN [text |-> c.text, buf |-> c.buf, draft |-> c.draft, steps |-> <<>>]
  ELSE IF NeedsForcedDrain(c)
  THEN LET drained == ChunkerDrainForced(c.buf)
           text == AppendChunks(drained.chunks, c.text)
       IN [text |-> text,
           buf |-> ChunkerReset(drained.rest),
           draft |-> IF text # Empty THEN DraftUpdate(c.draft, text) ELSE c.draft,
           steps |-> <<"drain">> \o (IF text # Empty THEN <<"update">> ELSE <<>>)
                      \o <<"flush">>]
  ELSE [text |-> c.text, buf |-> c.buf, draft |-> c.draft, steps |-> <<"flush">>]

\* deliver is invoked for the next payload and runs to its first await
DeliverStart(kind) ==
  /\ pc = "deliver"
  /\ payloads # <<>>
  /\ payloads' = Tail(payloads)
  /\ delivering' = Head(payloads)
  /\ deliverCalls' = deliverCalls + 1
  /\ deliverKind' = kind
  /\ IF FlushesDraftFor(kind) /\ draftStream.exists
     THEN LET f == FlushDraft(Entered(Closure))
          IN /\ draftText' = f.text
             /\ chunkBuf' = f.buf
             /\ draftStream' = f.draft
             /\ deliverSteps' = f.steps
             /\ pc' = "flushing"
     ELSE /\ deliverSteps' = <<"send">>
          /\ pc' = "sending"
          /\ UNCHANGED <<draftText, chunkBuf, draftStream>>
  /\ UNCHANGED <<config, sideVars, history, typing, cosmeticLog, lastPartialText, streamVars, terminal, sends, errorLog,
                 queuedFinal, ackRemoval, cancelled>>

\* draftStream.flush() returns (line 114); then stop (line 137) and the
\* call of deliverReplies (line 139)
FlushReturns ==
  /\ pc = "flushing"
  /\ DraftFlushed(draftStream)
  /\ draftStream' = DraftStop(draftStream)
  /\ deliverSteps' = deliverSteps \o <<"flushed", "stop", "send">>
  /\ pc' = "sending"
  /\ UNCHANGED <<config, sideVars, deliverKind, history, typing, cosmeticLog, partialVars, streamVars, terminal, payloads, delivering,
                 deliverCalls, sends, errorLog, queuedFinal, ackRemoval, cancelled>>

\* the error is swallowed
OnErrorSilent(log, kind) == log

\* dispatcherOptions.onError (lines 152-154): runtime.error is called
OnError(log, kind) == Append(log, kind)

\* the dispatcher after a deliver call has settled: next payload, or resolve
Settled ==
  /\ delivering' = 0
  /\ pc' = IF payloads # <<>> THEN "deliver" ELSE "dispatched"
  /\ queuedFinal' = IF payloads # <<>> THEN queuedFinal ELSE TRUE

DeliverRepliesSucceeds ==
  /\ pc = "sending"
  /\ sends' = Append(sends, [payload |-> delivering, kind |-> deliverKind,
                            ok |-> TRUE])
  /\ Settled
  /\ UNCHANGED <<config, sideVars, deliverKind, history, typing, cosmeticLog, draftStream, partialVars, streamVars, terminal, payloads,
                 deliverSteps, deliverCalls, errorLog, ackRemoval, cancelled>>

DeliverRepliesFails ==
  /\ pc = "sending"
  /\ sends' = Append(sends, [payload |-> delivering, kind |-> deliverKind,
                            ok |-> FALSE])
  /\ errorLog' = OnError(errorLog, "final")
  /\ Settled
  /\ UNCHANGED <<config, sideVars, deliverKind, history, typing, cosmeticLog, draftStream, partialVars, streamVars, terminal, payloads,
                 deliverSteps, deliverCalls, ackRemoval, cancelled>>

----------------------------------------------------------------------------
(* after the dispatcher has returned (lines 176-197) *)

\* the terminating stop is left out
StopAfterDispatchSkipped(d) == d

\* line 176
StopAfterDispatch(d) == IF d.exists THEN DraftStop(d) ELSE d

\* the early return is missing
TriggersAckRemovalAlways(queued) == TRUE

\* lines 177-183: the early return skips removeAckReactionAfterReply
TriggersAckRemoval(queued) == queued

\* the history is cleared whatever the chat type
ClearsHistoryAnyChat(c) == c.hasHistoryKey

\* line 178: the condition on the path without a reply
ClearsHistory(c) == c.isGroup /\ c.hasHistoryKey

\* the history is left alone after a delivered reply
ClearsHistoryAfterReplyNever(c) == FALSE

\* line 195: the same condition on the path after a delivered reply
ClearsHistoryAfterReply(c) == c.isGroup /\ c.hasHistoryKey

AfterDispatch ==
  /\ pc = "dispatched"
  /\ draftStream' = StopAfterDispatch(draftStream)
  /\ history' = IF (IF queuedFinal THEN ClearsHistoryAfterReply(config)
                                    ELSE ClearsHistory(config))
                THEN ClearHistoryEntriesIfEnabled(history, "turn", config.historyLimit)
                ELSE history
  /\ ackRemoval' = IF TriggersAckRemoval(queuedFinal)
                   THEN [triggers |-> ackRemoval.triggers + 1, outcome |-> "pending"]
                   ELSE ackRemoval
  /\ pc' = "done"
  /\ UNCHANGED <<config, sideVars, deliverKind, typing, cosmeticLog, partialVars, streamVars, terminal, deliveryVars, queuedFinal,
                 cancelled>>

\* removeAckReactionAfterReply settles; a failure reaches onError (lines 188-193)
AckRemovalSucceeds ==
  /\ ackRemoval.outcome = "pending"
  /\ ackRemoval' = [ackRemoval EXCEPT !.outcome = "removed"]
  /\ UNCHANGED <<config, sideVars, deliverKind, history, typing, cosmeticLog, draftStream, partialVars, streamVars, pc, terminal,
                 deliveryVars, queuedFinal, cancelled>>

AckRemovalFails ==
  /\ ackRemoval.outcome = "pending"
  /\ ackRemoval' = [ackRemoval EXCEPT !.outcome = "logged"]
  /\ UNCHANGED <<config, sideVars, deliverKind, history, typing, cosmeticLog, draftStream, partialVars, streamVars, pc, terminal,
                 deliveryVars, queuedFinal, cancelled>>

----------------------------------------------------------------------------
(* External cancellation: the source holds no cancellation hook, so the     *)
(* only effect a cancelled turn has on dispatchTelegramMessage is the       *)
(* outcome of the awaited dispatcher call: it rejects, or it resolves       *)
(* without a final reply.                                                   *)

Cancel(rejects) ==
  /\ pc \in {"streaming", "deliver"}
  /\ cancelled' = TRUE
  /\ pc' = IF rejects THEN "threw" ELSE "dispatched"
  /\ queuedFinal' = IF rejects THEN queuedFinal ELSE deliverCalls > 0
  /\ UNCHANGED <<config, sideVars, deliverKind, history, typing, cosmeticLog, draftStream, partialVars, streamVars, terminal, deliveryVars,
                 ackRemoval>>

----------------------------------------------------------------------------
(* Two dispatchTelegramMessage calls running concurrently.  Each call has   *)
(* its own closure (lines 52-69 are inside the function body); turns.state  *)
(* holds the closures by slot, turns.phase the position of each call, and   *)
(* turns.actor the call whose callback (or whose draft transport) ran last. *)

TurnIds == {1, 2}

TurnModes == {"partial", "block"}

\* partial texts of the two reply streams: growing, restarting, with and
\* without a break
TurnTexts == {<<Letter>>, <<Break>>, <<Letter, Break>>, <<Break, Break>>}

\* the closure state is kept in the module scope, one for all calls
TurnSlotShared(t) == 1

\* lines 52-69: draftStream, draftChunker, lastPartialText and draftText are
\* locals of the call
TurnSlot(t) == t

TurnState(t) == turns.state[TurnSlot(t)]

NewClosure(mode) ==
  [last |-> Empty, text |-> Empty, buf |-> Empty, draft |-> NewDraft,
   mode |-> mode, chunking |-> (mode = "block")]

InitTurns ==
  /\ DispatchIdle /\ PendingIdle /\ OwnerIdle /\ ModelIdle
  /\ \E modes \in [TurnIds -> TurnModes] :
       turns = [state |-> [t \in TurnIds |-> NewClosure(modes[t])],
                phase |-> [t \in TurnIds |-> "streaming"],
                actor |-> 0,
                events |-> 0]

TurnActs(t, c, phase, n) ==
  /\ turns' = [state |-> [turns.state EXCEPT ![TurnSlot(t)] = c],
               phase |-> [turns.phase EXCEPT ![t] = phase],
               actor |-> t,
               events |-> turns.events + n]
  /\ UNCHANGED <<dispatchVars, pendingVars, ownerVars, modelVars>>

\* onPartialReply of call t (line 164)
TurnPartialReply(t, text) ==
  /\ turns.phase[t] = "streaming"
  /\ turns.events < MaxEvents
  /\ TurnActs(t, UpdateDraftFromPartial(text, Entered(TurnState(t))), "streaming", 1)

\* onReasoningStream of call t (lines 165-169)
TurnReasoningStream(t, text) ==
  /\ turns.phase[t] = "streaming"
  /\ turns.events < MaxEvents
  /\ LET c == Entered(TurnState(t))
     IN TurnActs(t, IF text # Empty
                    THEN [c EXCEPT !.draft = DraftUpdate(c.draft, text)]
                    ELSE c,
                 "streaming", 1)

\* the transport answers the edit in flight of the draft of call t
TurnEditComplete(t) ==
  /\ TurnState(t).draft.inFlight # <<>>
  /\ TurnActs(t, [TurnState(t) EXCEPT !.draft = DraftEditDone(@)],
              turns.phase[t], 0)

\* deliver of call t for a final payload, up to the await of flush
\* (lines 135-136)
TurnDeliverFinal(t) ==
  /\ turns.phase[t] = "streaming"
  /\ LET c == Entered(TurnState(t))
         f == FlushDraft(c)
     IN TurnActs(t, [c EXCEPT !.text = f.text, !.buf = f.buf, !.draft = f.draft],
                 "flushing", 0)

\* flush returns to call t, which stops its draft (line 137)
TurnFlushReturns(t) ==
  /\ turns.phase[t] = "flushing"
  /\ DraftFlushed(TurnState(t).draft)
  /\ TurnActs(t, [TurnState(t) EXCEPT !.draft = DraftStop(@)], "done", 0)

NextTurns ==
  \E t \in TurnIds :
    \/ \E text \in TurnTexts : TurnPartialReply(t, text)
    \/ \E text \in ReasoningTexts : TurnReasoningStream(t, text)
    \/ TurnEditComplete(t)
    \/ TurnDeliverFinal(t)
    \/ TurnFlushReturns(t)

SpecTurns == InitTurns /\ [][NextTurns]_vars

----------------------------------------------------------------------------
(* Process-wide pending state of the message processor                      *)
(* (src/src/types/discord-voice-optional.d.ts, lines 88-123).  A map is a   *)
(* function from its keys; an entry also records the instant it was         *)
(* written.  The clock counts ticks of one TTL; a timer runs at its due     *)
(* instant.  timers keeps the timers that have run, marked as fired.        *)

MaxClock == 2
MaxTimers == 3

\* PENDING_TTL_MS (line 90) and CANDIDATES_TTL_MS (line 114), in ticks
PendingTtlTicks == 1
CandidatesTtlTicks == 1

ChatIds == {1, 2}
NoThread == 0
ThreadIds == {NoThread, 1}
MessageIds == {1}
DeliverPayloads == {"file"}

\* lines 96 and 104: `${chatId}_${threadId}`, or String(chatId)
PendingKey(chatId, threadId) ==
  IF threadId # NoThread THEN <<chatId, "_", threadId>> ELSE <<chatId>>

\* line 120: `${chatId}_${messageId}`
CandidatesKey(chatId, messageId) == <<chatId, "_", messageId>>

MapSet(map, key, value) ==
  [k \in DOMAIN map \cup {key} |-> IF k = key THEN value ELSE map[k]]

MapDelete(map, key) == [k \in DOMAIN map \ {key} |-> map[k]]

\* no timer is set for the entry
SetTimeoutNever(map, key, delay) == timers

\* setTimeout (lines 98, 122)
SetTimeout(map, key, delay) ==
  timers \cup {[map |-> map, key |-> key, due |-> now + delay, fired |-> FALSE]}

\* the entry written by the next map write: the payload, with the instant,
\* the serial number and the chat and thread of the write
WrittenEntry(payload, chatId, threadId) ==
  [payload |-> payload, written |-> now, serial |-> consumed.writes + 1,
   chatId |-> chatId, threadId |-> threadId]

Written == [consumed EXCEPT !.writes = @ + 1]

\* lines 91-99
SetPendingDeliver(chatId, threadId, payload) ==
  LET key == PendingKey(chatId, threadId)
  IN /\ consumed.writes < MaxTimers
     /\ pendingDeliver' =
          MapSet(pendingDeliver, key, WrittenEntry(payload, chatId, threadId))
     /\ timers' = SetTimeout("pendingDeliver", key, PendingTtlTicks)
     /\ consumed' = Written
     /\ UNCHANGED <<dispatchVars, turns, ownerVars, modelVars, deliverCandidatesStore, now>>

\* the record stays in the map after it was returned
PendingAfterGetKept(map, key) == map

\* lines 106-108: if (p) pendingDeliver.delete(key)
PendingAfterGet(map, key) ==
  IF key \in DOMAIN map THEN MapDelete(map, key) ELSE map

\* lines 100-110, called for a message of the chat and thread (line 200);
\* a call that finds no record returns null and changes nothing
GetAndClearPendingDeliver(chatId, threadId) ==
  LET key == PendingKey(chatId, threadId)
  IN /\ key \in DOMAIN pendingDeliver
     /\ pendingDeliver' = PendingAfterGet(pendingDeliver, key)
     /\ consumed' = [consumed EXCEPT
                       !.got = @ \cup {[chatId |-> chatId, threadId |-> threadId,
                                        record |-> pendingDeliver[key]]}]
     /\ UNCHANGED <<dispatchVars, turns, ownerVars, modelVars, deliverCandidatesStore,
                    timers, now>>

\* lines 115-123
StoreDeliverCandidates(chatId, messageId, candidates) ==
  LET key == CandidatesKey(chatId, messageId)
  IN /\ consumed.writes < MaxTimers
     /\ deliverCandidatesStore' =
          MapSet(deliverCandidatesStore, key,
                 WrittenEntry(candidates, chatId, messageId))
     /\ timers' = SetTimeout("deliverCandidatesStore", key, CandidatesTtlTicks)
     /\ consumed' = Written
     /\ UNCHANGED <<dispatchVars, turns, ownerVars, modelVars, pendingDeliver, now>>

\* the callback of a timer runs (lines 98, 122): it deletes the key
TimerFires(t) ==
  /\ ~t.fired
  /\ t.due <= now
  /\ timers' = (timers \ {t}) \cup {[t EXCEPT !.fired = TRUE]}
  /\ IF t.map = "pendingDeliver"
     THEN /\ pendingDeliver' = MapDelete(pendingDeliver, t.key)
          /\ UNCHANGED deliverCandidatesStore
     ELSE /\ deliverCandidatesStore' = MapDelete(deliverCandidatesStore, t.key)
          /\ UNCHANGED pendingDeliver
  /\ UNCHANGED <<dispatchVars, turns, ownerVars, modelVars, now, consumed>>

\* time passes, once the timers that are due have run
Tick ==
  /\ now < MaxClock
  /\ \A t \in timers : t.fired \/ t.due > now
  /\ now' = now + 1
  /\ UNCHANGED <<dispatchVars, turns, ownerVars, modelVars, pendingDeliver,
                 deliverCandidatesStore, timers, consumed>>

InitPending == DispatchIdle /\ TurnsIdle /\ OwnerIdle /\ ModelIdle /\ PendingIdle

NextPending ==
  \/ \E c \in ChatIds, th \in ThreadIds, p \in DeliverPayloads :
       SetPendingDeliver(c, th, p)
  \/ \E c \in ChatIds, th \in ThreadIds : GetAndClearPendingDeliver(c, th)
  \/ \E c \in ChatIds, m \in MessageIds, p \in DeliverPayloads :
       StoreDeliverCandidates(c, m, <<p>>)
  \/ \E t \in timers : TimerFires(t)
  \/ Tick

SpecPending == InitPending /\ [][NextPending]_vars

----------------------------------------------------------------------------
(* buildAgentSystemPrompt, owner numbers (src/unnamed/part_002, lines       *)
(* 344-348 and 500-502).  A number is a sequence of characters, a line a    *)
(* sequence of characters and fixed phrases; prompt.lines holds the lines   *)
(* of the owner section that are left by the final filter(Boolean).         *)

MaxOwners == 2

Space == " "
OwnerChars == {Space, "1", "2"}

OwnerNumberTexts == UNION {[1..n -> OwnerChars] : n \in 0..MaxLen}

OwnerLists == UNION {[1..n -> OwnerNumberTexts] : n \in 0..MaxOwners}

UserIdentityHeading == <<"## User Identity">>
OwnerLinePrefix == <<"Owner numbers: ">>
OwnerLineSuffix == <<". Treat messages from these numbers as the user.">>
OwnerSeparator == <<",", Space>>

\* the numbers are taken as given
TrimNothing(value) == value

RECURSIVE TrimStart(_)
TrimStart(value) ==
  IF value # <<>> /\ Head(value) = Space THEN TrimStart(Tail(value)) ELSE value

RECURSIVE TrimEnd(_)
TrimEnd(value) ==
  IF value # <<>> /\ value[Len(value)] = Space
  THEN TrimEnd(SubSeq(value, 1, Len(value) - 1))
  ELSE value

\* String.prototype.trim (line 344)
Trim(value) == TrimEnd(TrimStart(value))

\* .filter(Boolean): the empty string is the only falsy string
FilterBoolean(values) == SelectSeq(values, LAMBDA value : value # <<>>)

RECURSIVE Join(_, _)
Join(values, separator) ==
  IF values = <<>> THEN <<>>
  ELSE IF Len(values) = 1 THEN Head(values)
  ELSE Head(values) \o separator \o Join(Tail(values), separator)

\* line 344
ResolveOwnerNumbers(params) ==
  LET given == IF params.given THEN params.values ELSE <<>>
  IN FilterBoolean([i \in 1..Len(given) |-> Trim(given[i])])

\* lines 345-348: the line, or the empty sequence for undefined
OwnerLine(numbers) ==
  IF Len(numbers) > 0
  THEN OwnerLinePrefix \o Join(numbers, OwnerSeparator) \o OwnerLineSuffix
  ELSE <<>>

\* lines 500-502, then line 605
OwnerSection(line) ==
  FilterBoolean(<<IF line # <<>> THEN UserIdentityHeading ELSE <<>>,
                  line,
                  <<>> >>)

----------------------------------------------------------------------------
(* buildAgentSystemPrompt, tool names (src/unnamed/part_002, lines 249-342  *)
(* and 378-385).  A tool name is a sequence of letters in either case: "r"  *)
(* stands for read and "x" for exec, both in toolOrder; "xr" has a core     *)
(* summary but no place in toolOrder (as sessions_spawn); "rx" is a tool    *)
(* the prompt builder does not know.  A line is a sequence of its parts.    *)

MaxTools == 2

ReadTool == <<"r">>
ExecTool == <<"x">>
SpawnTool == <<"x", "r">>

ToolNameTexts ==
  {<<>>, <<"r">>, <<"R">>, <<"x">>, <<"X">>, <<"x", "r">>, <<"X", "r">>,
   <<"r", "x">>, <<"R", "x">>, <<"r", "X">>}

ToolNameLists == UNION {[1..n -> ToolNameTexts] : n \in 0..MaxTools}

\* params.toolSummaries: no entry, or one for the unknown tool under a
\* spelling of the caller
ToolSummaryLists ==
  {<<>>, << [key |-> <<"R", "x">>, value |-> "plugin summary"] >>}

\* lines 249-276
CoreToolSummaries ==
  [tool \in {ReadTool, ExecTool, SpawnTool} |->
     IF tool = ReadTool THEN "Read file contents"
     ELSE IF tool = ExecTool THEN "Run shell commands"
     ELSE "Spawn a sub-agent session"]

\* lines 278-302
ToolOrder == <<ReadTool, ExecTool>>

\* String.prototype.toLowerCase
ToLowerCase(name) ==
  [i \in 1..Len(name) |->
     IF name[i] = "R" THEN "r" ELSE IF name[i] = "X" THEN "x" ELSE name[i]]

\* UTF-16 code unit order of the letters
CharRank(ch) == IF ch = "R" THEN 1 ELSE IF ch = "X" THEN 2 ELSE IF ch = "r" THEN 3 ELSE 4

\* the default order of Array.prototype.sort on strings
RECURSIVE NameLess(_, _)
NameLess(a, b) ==
  IF a = <<>> THEN b # <<>>
  ELSE IF b = <<>> THEN FALSE
  ELSE IF Head(a) # Head(b) THEN CharRank(Head(a)) < CharRank(Head(b))
  ELSE NameLess(Tail(a), Tail(b))

\* lines 304-305
CanonicalToolNames(names) == FilterBoolean([i \in 1..Len(names) |-> Trim(names[i])])

\* lines 306-312
RECURSIVE CanonicalByNormalized(_, _)
CanonicalByNormalized(names, map) ==
  IF names = <<>> THEN map
  ELSE LET normalized == ToLowerCase(Head(names))
       IN CanonicalByNormalized(Tail(names),
                                IF normalized \in DOMAIN map THEN map
                                ELSE MapSet(map, normalized, Head(names)))

\* the lower-case name stands for the tool
ResolveToolNameLowered(map, normalized) == normalized

\* lines 313-314
ResolveToolName(map, normalized) ==
  IF normalized \in DOMAIN map THEN map[normalized] ELSE normalized

\* lines 318-323
RECURSIVE ExternalToolSummaries(_, _)
ExternalToolSummaries(entries, map) ==
  IF entries = <<>> THEN map
  ELSE LET normalized == ToLowerCase(Trim(Head(entries).key))
       IN ExternalToolSummaries(Tail(entries),
                                IF normalized = <<>> \/ Head(entries).value = ""
                                THEN map
                                ELSE MapSet(map, normalized, Head(entries).value))

\* new Set(...) then Array.from: the first occurrences, in order
RECURSIVE Unique(_)
Unique(names) ==
  IF names = <<>> THEN <<>>
  ELSE LET last == names[Len(names)]
           front == Unique(SubSeq(names, 1, Len(names) - 1))
       IN IF \E i \in 1..Len(front) : front[i] = last THEN front
          ELSE Append(front, last)

InToolOrder(tool) == \E i \in 1..Len(ToolOrder) : ToolOrder[i] = tool

\* lines 329-331 and 334-336
ToolLine(tool, canonical, external) ==
  LET name == ResolveToolName(canonical, tool)
  IN IF tool \in DOMAIN CoreToolSummaries
     THEN <<"- ", name, ": ", CoreToolSummaries[tool]>>
     ELSE IF tool \in DOMAIN external
     THEN <<"- ", name, ": ", external[tool]>>
     ELSE <<"- ", name>>

\* lines 304-337
ToolLines(params) ==
  LET names == CanonicalToolNames(params.toolNames)
      canonical == CanonicalByNormalized(names, <<>>)
      normalizedTools == [i \in 1..Len(names) |-> ToLowerCase(names[i])]
      external == ExternalToolSummaries(params.toolSummaries, <<>>)
      extraTools == SortSeq(Unique(SelectSeq(normalizedTools,
                                             LAMBDA tool : ~InToolOrder(tool))),
                            NameLess)
      enabledTools == SelectSeq(ToolOrder,
                                LAMBDA tool : \E i \in 1..Len(normalizedTools) :
                                                normalizedTools[i] = tool)
      tools == enabledTools \o extraTools
  IN [i \in 1..Len(tools) |-> ToolLine(tools[i], canonical, external)]

\* lines 340 and 378-385: the sentence of the skills section that names the
\* read tool (the back quotes around the name are left out of the parts)
SkillsSection(params) ==
  IF params.skillsPrompt
  THEN <<"Use ",
         ResolveToolName(CanonicalByNormalized(CanonicalToolNames(params.toolNames),
                                               <<>>),
                         ReadTool),
         " to load the SKILL.md at the location listed for that skill.">>
  ELSE <<>>

InitTools ==
  /\ DispatchIdle /\ TurnsIdle /\ PendingIdle /\ ModelIdle
  /\ ownerNumbers = [given |-> FALSE, values |-> <<>>]
  /\ toolParams \in [toolNames : ToolNameLists, toolSummaries : ToolSummaryLists,
                     skillsPrompt : BOOLEAN]
  /\ prompt = [built |-> FALSE, lines |-> <<>>, toolLines |-> <<>>,
               skillsLine |-> <<>>]

BuildAgentSystemPrompt ==
  /\ ~prompt.built
  /\ prompt' = [built |-> TRUE,
                lines |-> OwnerSection(OwnerLine(ResolveOwnerNumbers(ownerNumbers))),
                toolLines |-> ToolLines(toolParams),
                skillsLine |-> SkillsSection(toolParams)]
  /\ UNCHANGED <<dispatchVars, turns, pendingVars, modelVars, ownerNumbers, toolParams>>

InitOwner ==
  /\ DispatchIdle /\ TurnsIdle /\ PendingIdle /\ ModelIdle
  /\ ownerNumbers \in [given : BOOLEAN, values : OwnerLists]
  /\ ~ownerNumbers.given => ownerNumbers.values = <<>>
  /\ toolParams = [toolNames |-> <<>>, toolSummaries |-> <<>>, skillsPrompt |-> FALSE]
  /\ prompt = [built |-> FALSE, lines |-> <<>>, toolLines |-> <<>>,
               skillsLine |-> <<>>]

NextOwner == BuildAgentSystemPrompt

SpecOwner == InitOwner /\ [][NextOwner]_vars

SpecTools == InitTools /\ [][NextOwner]_vars

----------------------------------------------------------------------------
(* resolveModel (src/agents/pi-embedded-runner/model.ts).  A provider id or *)
(* a model id is a sequence of words and spaces; a word is written in lower *)
(* case or capitalised.  A model is a record of the fields the function     *)
(* reads or sets, with the place it came from.                              *)

MaxProviders == 2

\* the provider ids resolveModel is called with
RequestProviders ==
  {<<"custom">>, <<"Custom">>, <<"openai-codex">>, <<"anthropic">>,
   <<"ollama">>, <<"Ollama">>, <<"vllm">>, <<"constructor">>,
   <<"Constructor">>, <<Space>>}

\* the keys of cfg.models.providers
ConfigKeys ==
  {<<"custom">>, <<"Custom", Space>>, <<Space>>, <<"codex-cli">>,
   <<"claude-cli">>, <<"openai-codex">>, <<"anthropic">>}

MockPrefix == "mock-"

ModelIds == {<<"m">>, <<MockPrefix, "m">>}

\* cfg.models.providers, in the order of Object.entries; keys are distinct,
\* and an entry holds its key, its api and its models
ProviderConfigs ==
  LET ProviderEntries ==
        [key : ConfigKeys, api : {"openai-completions"},
         models : {<<>>, << [id |-> <<"m">>, api |-> "undefined"] >>}]
  IN UNION {{ps \in [1..n -> ProviderEntries] :
               \A i, j \in 1..n : i # j => ps[i].key # ps[j].key} :
            n \in 0..MaxProviders}

\* the api of the model modelRegistry.find returns, "null" when it finds none
RegistryFinds ==
  {"null", "openai-codex-responses", "anthropic-messages", "openai-responses"}

\* the members every object literal inherits from Object.prototype
\* (constructor stands for them)
ObjectPrototypeKeys == {<<"constructor">>}

UndefinedModel ==
  [from |-> "undefined", id |-> <<>>, provider |-> <<>>, api |-> "undefined",
   compat |-> "undefined"]

\* provider.toLowerCase() (line 214)
ProviderToLowerCase(provider) ==
  [i \in 1..Len(provider) |->
     IF provider[i] = "Custom" THEN "custom"
     ELSE IF provider[i] = "Ollama" THEN "ollama"
     ELSE IF provider[i] = "Constructor" THEN "constructor"
     ELSE provider[i]]

\* normalizeProviderId (../model-selection.js): casing and surrounding space
\* of the id do not count (line 89)
NormalizeProviderId(provider) == ProviderToLowerCase(Trim(provider))

\* normalizeModelCompat (../model-compat.js)
NormalizeModelCompat(model) == [model EXCEPT !.compat = "normalized"]

\* lines 26-41
RECURSIVE BuildInlineProviderModels(_)
BuildInlineProviderModels(providers) ==
  IF providers = <<>> THEN <<>>
  ELSE LET entry == Head(providers)
           trimmed == Trim(entry.key)
           models ==
             [i \in 1..Len(entry.models) |->
                [from |-> "inline", id |-> entry.models[i].id,
                 provider |-> trimmed,
                 api |-> IF entry.models[i].api # "undefined"
                         THEN entry.models[i].api
                         ELSE entry.api,
                 compat |-> "raw"]]
       IN (IF trimmed = <<>> THEN <<>> ELSE models)
          \o BuildInlineProviderModels(Tail(providers))

\* lines 63-68 and 90-92: Object.keys(providers).find(...) !== undefined
HasConfigKey(providers, normalized) ==
  \E i \in 1..Len(providers) : NormalizeProviderId(providers[i].key) = normalized

\* lines 70-72, 80-82, 94-96, 110-112, 123-125, 132-134 and 141-143
InlineMatch(inlineModels, normalized, modelId) ==
  LET hits == SelectSeq(inlineModels,
                        LAMBDA entry :
                          /\ NormalizeProviderId(entry.provider) = normalized
                          /\ entry.id = modelId)
  IN IF hits = <<>> THEN UndefinedModel ELSE hits[1]

\* the config-defined models are looked at after the registry only
InlinePreferredNever(configProviderKey, inlineModels) == FALSE

\* line 93
InlinePreferred(configProviderKey, inlineModels) ==
  configProviderKey /\ Len(inlineModels) > 0

\* modelId.startsWith("mock-") (line 159)
StartsWithMock(modelId) == modelId # <<>> /\ Head(modelId) = MockPrefix

\* providers[provider] (line 158) is truthy: an own key, or a member that
\* the object inherits
HasProviderCfg(providers, provider) ==
  \/ \E i \in 1..Len(providers) : providers[i].key = provider
  \/ provider \in ObjectPrototypeKeys

\* lines 160-178; an inherited member has no models and no api
FallbackModel(providers, provider, modelId) ==
  LET own == {i \in 1..Len(providers) : providers[i].key = provider}
      models == IF own # {} THEN providers[CHOOSE i \in own : TRUE].models ELSE <<>>
      api == IF own # {} THEN providers[CHOOSE i \in own : TRUE].api
             ELSE "openai-responses"
      effectiveModelId ==
        IF /\ Len(models) > 0
           /\ \/ modelId = provider
              \/ NormalizeProviderId(modelId) = NormalizeProviderId(provider)
        THEN models[1].id
        ELSE modelId
  IN NormalizeModelCompat([from |-> "fallback", id |-> effectiveModelId,
                           provider |-> provider,
                           api |-> api,
                           compat |-> "raw"])

\* what resolveForwardCompatModel returns when it resolves a model
ForwardCompatModel(provider, modelId) ==
  [from |-> "forwardCompat", id |-> modelId, provider |-> provider,
   api |-> "forward-compat", compat |-> "raw"]

\* what modelRegistry.find returns when it finds a model
RegistryModel(provider, modelId, api) ==
  [from |-> "registry", id |-> modelId, provider |-> provider, api |-> api,
   compat |-> "raw"]

OllamaHint == "Ollama requires authentication to be registered as a provider."
VllmHint == "vLLM requires authentication to be registered as a provider."

\* lines 201-210, read at line 214: the two own keys, and the members the
\* object literal inherits
LocalProviderHints(key) ==
  IF key = <<"ollama">> THEN OllamaHint
  ELSE IF key = <<"vllm">> THEN VllmHint
  ELSE IF key \in ObjectPrototypeKeys THEN "function Object() { [native code] }"
  ELSE "undefined"

\* lines 212-216
BuildUnknownModelError(provider, modelId) ==
  LET base == <<"Unknown model: ", provider, "/", modelId>>
      hint == LocalProviderHints(ProviderToLowerCase(provider))
  IN IF hint # "undefined" THEN base \o <<". ", hint>> ELSE base

\* return { model, authStorage, modelRegistry }
ModelResult(model) ==
  [model |-> model, authStorage |-> "authStorage", modelRegistry |-> "modelRegistry"]

\* the unknown model is reported by leaving the model out
ErrorResultEmpty(provider, modelId) ==
  [authStorage |-> "authStorage", modelRegistry |-> "modelRegistry"]

\* lines 181-185
ErrorResult(provider, modelId) ==
  [error |-> BuildUnknownModelError(provider, modelId),
   authStorage |-> "authStorage", modelRegistry |-> "modelRegistry"]

\* lines 43-188
ResolveModel(q) ==
  LET providers == q.providers
      inlineModels == BuildInlineProviderModels(providers)
      normalizedProvider == NormalizeProviderId(q.provider)
      codexCliConfigKey == HasConfigKey(providers, <<"codex-cli">>)
      claudeCliConfigKey == HasConfigKey(providers, <<"claude-cli">>)
      codexCliMatch == InlineMatch(inlineModels, <<"codex-cli">>, q.modelId)
      claudeCliMatch == InlineMatch(inlineModels, <<"claude-cli">>, q.modelId)
      configProviderKey == HasConfigKey(providers, normalizedProvider)
      inlineMatch == InlineMatch(inlineModels, normalizedProvider, q.modelId)
  IN IF /\ normalizedProvider = <<"openai-codex">>
        /\ codexCliConfigKey
        /\ codexCliMatch # UndefinedModel
     THEN ModelResult(NormalizeModelCompat(codexCliMatch))
     ELSE IF /\ normalizedProvider = <<"anthropic">>
             /\ claudeCliConfigKey
             /\ claudeCliMatch # UndefinedModel
     THEN ModelResult(NormalizeModelCompat(claudeCliMatch))
     ELSE IF /\ InlinePreferred(configProviderKey, inlineModels)
             /\ inlineMatch # UndefinedModel
     THEN ModelResult(NormalizeModelCompat(inlineMatch))
     ELSE IF /\ q.found = "openai-codex-responses"
             /\ codexCliConfigKey
             /\ codexCliMatch # UndefinedModel
     THEN ModelResult(NormalizeModelCompat(codexCliMatch))
     ELSE IF /\ q.found \in {"anthropic", "anthropic-messages"}
             /\ claudeCliConfigKey
             /\ claudeCliMatch # UndefinedModel
     THEN ModelResult(NormalizeModelCompat(claudeCliMatch))
     ELSE IF /\ q.found = "openai-codex-responses"
             /\ configProviderKey
             /\ inlineMatch # UndefinedModel
     THEN ModelResult(NormalizeModelCompat(inlineMatch))
     ELSE IF q.found = "null"
     THEN IF inlineMatch # UndefinedModel
          THEN ModelResult(NormalizeModelCompat(inlineMatch))
          ELSE IF q.forwardCompat
          THEN ModelResult(ForwardCompatModel(q.provider, q.modelId))
          ELSE IF HasProviderCfg(providers, q.provider) \/ StartsWithMock(q.modelId)
          THEN ModelResult(FallbackModel(providers, q.provider, q.modelId))
          ELSE ErrorResult(q.provider, q.modelId)
     ELSE ModelResult(NormalizeModelCompat(RegistryModel(q.provider, q.modelId,
                                                         q.found)))

CallResolveModel ==
  /\ ~resolved.done
  /\ resolved' = [done |-> TRUE, result |-> ResolveModel(request)]
  /\ UNCHANGED <<dispatchVars, turns, pendingVars, ownerVars, request>>

InitModel ==
  /\ DispatchIdle /\ TurnsIdle /\ PendingIdle /\ OwnerIdle
  /\ request \in [provider : RequestProviders, modelId : ModelIds,
                  providers : ProviderConfigs, found : RegistryFinds,
                  forwardCompat : BOOLEAN]
  /\ resolved = [done |-> FALSE]

SpecModel == InitModel /\ [][CallResolveModel]_vars

----------------------------------------------------------------------------

Next ==
  \/ \E text \in Texts : OnPartialReply(text)
  \/ \E text \in ReasoningTexts : OnReasoningStream(text)
  \/ EditComplete
  \/ \E n \in 1..MaxPayloads : TerminalFinal(n)
  \/ TerminalNone
  \/ StreamEnds
  \/ DispatcherFails
  \/ DeliverStart("final")
  \/ FlushReturns
  \/ DeliverRepliesSucceeds
  \/ DeliverRepliesFails
  \/ AfterDispatch
  \/ AckRemovalSucceeds
  \/ AckRemovalFails

Spec == Init /\ [][Next]_vars

\* the continuation of the awaited dispatcher call is always run
FairSpec == Spec /\ WF_vars(AfterDispatch)

NextCancel == Next \/ \E rejects \in BOOLEAN : Cancel(rejects)

SpecCancel == Init /\ [][NextCancel]_vars

\* the typing cue and the draft edits may fail; onReplyStart runs when the
\* dispatch begins, before the reply stream is consumed
NextCosmetic ==
  \/ typing # "idle" /\ Next
  \/ \E ok \in BOOLEAN : ReplyStart(ok)
  \/ EditFails

\* the history plays no part here: one chat without a group history
InitCosmetic == Init /\ ~config.isGroup /\ config.hasHistoryKey

SpecCosmetic == InitCosmetic /\ [][NextCosmetic]_vars

\* the deliver callback is also handed payloads of another kind
NextKinds == Next \/ DeliverStart("block")

SpecKinds == Init /\ [][NextKinds]_vars

----------------------------------------------------------------------------
(* Properties *)

Ended == pc \in {"done", "threw"}

Did(step) == \E i \in 1..Len(deliverSteps) : deliverSteps[i] = step

Before(first, second) ==
  \E i, j \in 1..Len(deliverSteps) :
    /\ i < j
    /\ deliverSteps[i] = first
    /\ deliverSteps[j] = second

\* C1: in a turn with a draft, the deliver call of a final payload runs the
\* forced drain, then update, then flush, then stop, and only then the
\* durable send; the send never starts before flush has returned (the draft
\* has nothing in flight or queued, and is stopped, when the send starts).
FinalDeliveryAfterFlush ==
  draftStream.exists =>
    /\ Did("send") =>
         /\ Before("flush", "flushed")
         /\ Before("flushed", "stop")
         /\ Before("stop", "send")
    /\ Did("drain") => Before("drain", "flush")
    /\ Did("update") => Before("drain", "update") /\ Before("update", "flush")
    /\ pc = "flushing" => Did("flush") /\ ~Did("send")
    /\ pc = "sending" =>
         Did("send") /\ draftStream.stopped /\ DraftFlushed(draftStream)

FinalDeliveryAfterFlushWitness ==
  /\ pc = "sending"
  /\ draftStream.exists
  /\ deliverSteps = <<"drain", "update", "flush", "flushed", "stop", "send">>

\* C2: when the draft has been flushed and stopped for a final payload, the
\* last text passed to update is the last partial text of the reply.
DraftShowsFullReply ==
  (draftStream.exists /\ pc = "sending" /\ lastSeen # Empty) =>
    draftStream.lastUpdate = <<lastSeen>>

\* C3: in block mode the accumulated draft text followed by the chunker's
\* buffer is the last non-empty partial text; once flushDraft has run, the
\* accumulated draft text alone is that text.
BlockTextConserved ==
  (draftStream.exists /\ config.streamMode = "block") =>
    /\ draftText \o chunkBuf = lastSeen
    /\ deliverCalls > 0 => (draftText = lastSeen /\ chunkBuf = Empty)

BlockTextConservedWitness ==
  /\ config.chunking
  /\ pc = "flushing"
  /\ Did("drain")
  /\ draftStream.transport # Empty
  /\ Len(draftText) > Len(draftStream.transport)

\* C4: once the partial stream has restarted non-monotonically, every text a
\* partial event passes to update is a prefix of the current partial text,
\* and the restart itself leaves only text of the new branch in the
\* accumulated draft text and the chunker.
ResetStartsFresh ==
  [][((\E text \in Texts : OnPartialReply(text)) /\ draftStream.exists /\ resetSeen') =>
       /\ \A i \in 1..Len(draftStream'.updatesInStep) :
            StartsWith(lastSeen', draftStream'.updatesInStep[i])
       /\ ~resetSeen =>
            /\ StartsWith(lastSeen', draftText')
            /\ config.streamMode = "block" => draftText' \o chunkBuf' = lastSeen']_vars

ResetStartsFreshWitness ==
  /\ resetSeen
  /\ config.chunking
  /\ pc = "streaming"
  /\ draftText # Empty
  /\ chunkBuf # Empty
  /\ draftStream.updatesInStep = <<draftText>>

\* C5: a turn whose terminal event is "none" has no deliver call and no
\* durable send, reports queuedFinal false and triggers no ack removal.
NoneDeliversNothing ==
  terminal.kind = "none" =>
    /\ deliverCalls = 0
    /\ sends = <<>>
    /\ ~queuedFinal
    /\ ackRemoval.triggers = 0

NoneDeliversNothingWitness ==
  /\ terminal.kind = "none"
  /\ pc = "done"
  /\ draftStream.exists
  /\ lastSeen # Empty

\* C6: the payloads of a final event are delivered one at a time, in their
\* order, every one of them, and each failed delivery is reported to onError
\* without stopping the deliveries after it.
PayloadsDeliveredInTurn ==
  /\ deliverCalls - Len(sends) = IF pc \in {"flushing", "sending"} THEN 1 ELSE 0
  /\ \A i \in 1..Len(sends) : sends[i].payload = i
  /\ Len(errorLog) = Cardinality({i \in 1..Len(sends) : ~sends[i].ok})
  /\ (terminal.kind = "final" /\ pc \in {"dispatched", "done"}) =>
       /\ deliverCalls = terminal.count
       /\ Len(sends) = terminal.count

PayloadsDeliveredInTurnWitness ==
  /\ pc = "done"
  /\ terminal.count = 2
  /\ Len(sends) = 2
  /\ ~sends[1].ok
  /\ sends[2].ok
  /\ errorLog = <<"final">>

\* C7: a turn that created a draft has stopped it when dispatchTelegramMessage
\* ends, whatever the outcome.
DraftStoppedAtEnd ==
  (draftStream.exists /\ Ended) => draftStream.stopped

\* C8: a reply stream that ends without a terminal event leads to a finished
\* turn whose draft is stopped and that made no delivery.
StreamEndCleansUp ==
  (terminal.kind = "eof") ~>
    /\ pc = "done"
    /\ draftStream.exists => draftStream.stopped
    /\ deliverCalls = 0
    /\ sends = <<>>

StreamEndCleansUpWitness ==
  /\ terminal.kind = "eof"
  /\ pc = "done"
  /\ draftStream.exists
  /\ draftStream.stopped
  /\ lastSeen # Empty

\* C9: a cancelled turn has stopped its draft when it ends, and makes no
\* deliver call after the cancellation.
CancelStopsDraft ==
  cancelled =>
    /\ delivering = 0
    /\ (draftStream.exists /\ Ended) => draftStream.stopped

\* C10: the ack removal is triggered at most once, after dispatch, and only
\* in a turn whose final payloads were all delivered.
AckRemovalOnlyAfterSuccess ==
  /\ ackRemoval.triggers <= 1
  /\ ackRemoval.triggers > 0 =>
       /\ pc = "done"
       /\ sends # <<>>
       /\ \A i \in 1..Len(sends) : sends[i].ok

NoReplyProduced == pc = "done" /\ ~queuedFinal

DraftIffStreamingChannel ==
  /\ draftStream.exists <=>
       /\ config.streamMode # "off"
       /\ config.isPrivateChat
       /\ config.threadIsNumber
       /\ config.botTopicsEnabled
  /\ ~draftStream.exists =>
       /\ draftStream = NoDraft
       /\ chunkBuf = Empty /\ draftText = Empty /\ lastPartialText = Empty
       /\ \A i \in 1..Len(deliverSteps) : deliverSteps[i] = "send"
       /\ (terminal.kind = "final" /\ pc \in {"dispatched", "done"}) =>
            Len(sends) = terminal.count

DraftIffStreamingChannelWitness ==
  /\ ~draftStream.exists
  /\ config.streamMode # "off"
  /\ config.isPrivateChat
  /\ lastSeen # Empty
  /\ terminal.kind = "final"
  /\ pc = "done"
  /\ Len(sends) = MaxPayloads

\* C12: at most one transport edit of the draft is in flight at any time,
\* a text is queued only behind an edit in flight, and the queued text is
\* always the text of the latest update call (a later update supersedes the
\* text queued by an earlier one).
OneEditInFlight ==
  /\ Len(draftStream.inFlight) <= 1
  /\ Len(draftStream.pending) <= 1
  /\ draftStream.pending # <<>> =>
       /\ draftStream.inFlight # <<>>
       /\ draftStream.pending = draftStream.lastUpdate

\* two updates made by one handler while an edit was in flight
OneEditInFlightWitness ==
  /\ Len(draftStream.updatesInStep) = 2
  /\ draftStream.inFlight = <<(<<"r">>)>>
  /\ draftStream.pending = <<draftStream.updatesInStep[2]>>
  /\ draftStream.updatesInStep[1] # draftStream.updatesInStep[2]

\* C13: when the flush of a deliver call has returned, the transport shows
\* the text of the last update call, and no edit is in flight or queued.
FlushSettlesLastUpdate ==
  (pc = "sending" /\ Did("flushed") /\ draftStream.lastUpdate # <<>>) =>
    /\ draftStream.transport = Head(draftStream.lastUpdate)
    /\ draftStream.inFlight = <<>>
    /\ draftStream.pending = <<>>

\* flushed after a partial update, a reasoning update and the update of the
\* forced drain
FlushSettlesLastUpdateWitness ==
  /\ pc = "sending"
  /\ Did("update")
  /\ Did("flushed")
  /\ events = MaxEvents
  /\ draftStream.transport = Head(draftStream.lastUpdate)
  /\ Len(draftStream.transport) = MaxLen

\* C14: once the draft is stopped, no step (a further stop, or the flush of
\* a second final payload) starts a transport edit or queues a text, the
\* transport only changes by the completion of an edit started before the
\* stop, the draft stays stopped and the turn does not fail.
StopIsIdempotent ==
  [][draftStream.stopped =>
       /\ draftStream'.stopped
       /\ draftStream'.pending = <<>>
       /\ draftStream'.inFlight \in {draftStream.inFlight, <<>>}
       /\ draftStream'.transport # draftStream.transport =>
            /\ draftStream.inFlight # <<>>
            /\ draftStream'.transport = Head(draftStream.inFlight)
       /\ pc' # "threw"]_vars

\* stop was called for two final payloads and once more after dispatch
StopIsIdempotentWitness ==
  /\ draftStream.stopped
  /\ draftStream.lastUpdate # <<>>
  /\ deliverCalls = 2
  /\ Did("stop")
  /\ pc = "done"

\* C19: every payload sent with deliverReplies was handed to the deliver
\* callback with kind "final".
OnlyFinalPayloadsSent ==
  \A i \in 1..Len(sends) : sends[i].kind = "final"

Logged(what) == \E i \in 1..Len(cosmeticLog) : cosmeticLog[i] = what

\* C15: a failed typing cue is logged and a failed draft edit is logged, and
\* neither raises into the dispatch flow: the turn only fails when the
\* dispatcher itself rejects, a flush never waits for an edit that failed,
\* and a final event still has every payload handed to deliverReplies in
\* order, reports queuedFinal and triggers the ack removal.
CosmeticFailuresNeverAbort ==
  /\ (typing = "failed") <=> Logged("typing")
  /\ pc = "threw" => terminal.kind = "error"
  /\ pc = "flushing" => (DraftFlushed(draftStream) \/ draftStream.inFlight # <<>>)
  /\ (terminal.kind = "final" /\ pc \in {"dispatched", "done"}) =>
       /\ queuedFinal
       /\ Len(sends) = terminal.count
       /\ \A i \in 1..Len(sends) : sends[i].payload = i
  /\ pc = "done" => (ackRemoval.triggers = 1 <=> queuedFinal)

CosmeticFailuresNeverAbortWitness ==
  /\ typing = "failed"
  /\ Logged("edit")
  /\ draftStream.transport = Empty
  /\ terminal.kind = "final"
  /\ pc = "done"
  /\ Len(sends) = MaxPayloads
  /\ \A i \in 1..Len(sends) : sends[i].ok
  /\ ackRemoval.outcome = "removed"

\* C16: a step of one turn (a partial, reasoning or final event, or an
\* answer of its draft's transport) leaves the other turn's draft and
\* per-turn state (last partial text, draft text, chunker buffer) as they
\* were: no update, flush or stop reaches the other turn's draft.
TurnsAreIsolated ==
  [][\A t \in TurnIds :
       t # turns'.actor => TurnState(t)' = TurnState(t)]_vars

\* both turns have streamed different texts; one is done, one is streaming
TurnsAreIsolatedWitness ==
  /\ turns.phase = [t \in TurnIds |-> IF t = 1 THEN "done" ELSE "streaming"]
  /\ TurnState(1).draft.stopped
  /\ ~TurnState(2).draft.stopped
  /\ TurnState(1).draft.lastUpdate # <<>>
  /\ TurnState(2).draft.lastUpdate # <<>>
  /\ TurnState(1).draft.lastUpdate # TurnState(2).draft.lastUpdate
  /\ TurnState(2).buf # Empty

ExpiresInTime(map, name, ttl) ==
  \A k \in DOMAIN map :
    /\ now <= map[k].written + ttl
    /\ \E t \in timers :
         /\ ~t.fired
         /\ t.map = name
         /\ t.key = k
         /\ t.due = map[k].written + ttl

\* C18: an entry of pendingDeliver or deliverCandidatesStore is never found
\* in its map later than one TTL after it was written, read or not: a timer
\* that deletes its key at that instant is still to run; once every timer
\* has run, both maps are empty.
PendingEntriesExpire ==
  /\ ExpiresInTime(pendingDeliver, "pendingDeliver", PendingTtlTicks)
  /\ ExpiresInTime(deliverCandidatesStore, "deliverCandidatesStore",
                   CandidatesTtlTicks)
  /\ (\A t \in timers : t.fired) =>
       (pendingDeliver = <<>> /\ deliverCandidatesStore = <<>>)

\* entries of both maps were written at different instants, and every timer
\* has run
PendingEntriesExpireWitness ==
  /\ \E t \in timers : t.map = "pendingDeliver"
  /\ \E t \in timers : t.map = "deliverCandidatesStore"
  /\ \E t, u \in timers : t.due # u.due
  /\ \A t \in timers : t.fired
  /\ pendingDeliver = <<>>
  /\ deliverCandidatesStore = <<>>

NonBlank(value) == \E i \in 1..Len(value) : value[i] # Space

\* the part of a non-blank number from its first to its last non-space
Trimmed(value) ==
  LET first == CHOOSE i \in 1..Len(value) :
                 value[i] # Space /\ \A j \in 1..(i - 1) : value[j] = Space
      last == CHOOSE i \in 1..Len(value) :
                value[i] # Space /\ \A j \in (i + 1)..Len(value) : value[j] = Space
  IN SubSeq(value, first, last)

\* where the k-th listed number starts in the list of the owner line
RECURSIVE ListedAt(_, _)
ListedAt(listed, k) ==
  IF k = 1 THEN Len(OwnerLinePrefix)
  ELSE ListedAt(listed, k - 1) + Len(listed[k - 1]) + Len(OwnerSeparator)

\* C20: the owner section is emitted exactly when some given owner number
\* has a non-space character; it is then the heading "## User Identity"
\* followed by one line: "Owner numbers: ", the non-blank numbers in input
\* order, each without its leading and trailing spaces, with ", " between
\* two of them, and the closing phrase.
OwnerSectionListsTrimmedNumbers ==
  prompt.built =>
    LET given == ownerNumbers.values
        listed == [i \in 1..Len(SelectSeq(given, NonBlank)) |->
                     Trimmed(SelectSeq(given, NonBlank)[i])]
        n == Len(listed)
    IN IF n = 0
       THEN prompt.lines = <<>>
       ELSE /\ Len(prompt.lines) = 2
            /\ prompt.lines[1] = UserIdentityHeading
            /\ LET line == prompt.lines[2]
               IN /\ SubSeq(line, 1, Len(OwnerLinePrefix)) = OwnerLinePrefix
                  /\ \A k \in 1..n :
                       SubSeq(line, ListedAt(listed, k) + 1,
                              ListedAt(listed, k) + Len(listed[k])) = listed[k]
                  /\ \A k \in 1..(n - 1) :
                       SubSeq(line, ListedAt(listed, k) + Len(listed[k]) + 1,
                              ListedAt(listed, k + 1)) = OwnerSeparator
                  /\ SubSeq(line, ListedAt(listed, n) + Len(listed[n]) + 1,
                            Len(line)) = OwnerLineSuffix

\* a padded number, then a blank one, then another number: two are listed
OwnerSectionWitness ==
  /\ prompt.built
  /\ Len(ownerNumbers.values) = MaxOwners
  /\ \E i \in 1..Len(ownerNumbers.values) :
       NonBlank(ownerNumbers.values[i]) /\ Head(ownerNumbers.values[i]) = Space
  /\ Len(prompt.lines) = 2
  /\ Len(prompt.lines[2]) = Len(OwnerLinePrefix) + 4 + Len(OwnerLineSuffix)

\* C22: in stream mode "partial", a partial event with a non-empty text
\* that differs from the previous partial text makes exactly one update
\* call, with that text, and remembers the text; a partial event with an
\* empty or a repeated text makes no update call and changes nothing.
PartialModeReplacesWhole ==
  [][\A text \in Texts :
       (OnPartialReply(text) /\ draftStream.exists /\ config.streamMode = "partial") =>
         IF text # Empty /\ text # lastPartialText
         THEN /\ draftStream'.updatesInStep = <<text>>
              /\ draftStream'.lastUpdate = <<text>>
              /\ lastPartialText' = text
              /\ draftStream'.inFlight # <<>>
         ELSE /\ draftStream'.updatesInStep = <<>>
              /\ draftStream' = DraftEnter(draftStream)
              /\ UNCHANGED partialVars]_vars

\* a text was passed on whole, after a longer one and a repeated one
PartialModeReplacesWholeWitness ==
  /\ config.streamMode = "partial"
  /\ draftStream.exists
  /\ events = MaxEvents
  /\ lastPartialText = <<Letter>>
  /\ draftStream.transport = <<Letter, Break>>
  /\ draftStream.updatesInStep = <<>>
  /\ draftStream.inFlight = <<lastPartialText>>

\* C23: a reasoning event with a non-empty text makes one update call with
\* that text and leaves the last partial text, the draft text and the
\* chunker buffer as they were; one with an empty text does nothing.
ReasoningOnlyUpdatesDraft ==
  [][\A text \in ReasoningTexts :
       OnReasoningStream(text) =>
         /\ UNCHANGED partialVars
         /\ IF draftStream.exists /\ text # Empty
            THEN /\ draftStream'.updatesInStep = <<text>>
                 /\ draftStream'.lastUpdate = <<text>>
            ELSE draftStream' = DraftEnter(draftStream)]_vars

\* the reasoning text is in flight while partial text is buffered
ReasoningOnlyUpdatesDraftWitness ==
  /\ draftStream.updatesInStep = <<(<<"r">>)>>
  /\ draftStream.inFlight = <<(<<"r">>)>>
  /\ chunkBuf # Empty
  /\ draftText # Empty
  /\ lastPartialText = draftText \o chunkBuf

\* C24: clearHistoryEntriesIfEnabled is called once when the turn completes,
\* with or without a delivered reply, if the chat is a group with a history
\* key; it is not called before, nor in a turn that fails, nor ever for a
\* chat that is not a group.
HistoryClearedOncePerTurn ==
  /\ history.clears <= 1
  /\ pc = "done" =>
       (history.clears = 1 <=> (config.isGroup /\ config.hasHistoryKey))
  /\ pc # "done" => history.clears = 0
  /\ ~config.isGroup => history.clears = 0

HistoryClearedOncePerTurnWitness ==
  /\ pc = "done"
  /\ queuedFinal
  /\ Len(sends) = MaxPayloads
  /\ config.isGroup
  /\ config.hasHistoryKey
  /\ history.clears = 1

\* C25: a record returned by getAndClearPendingDeliver was set for the chat
\* and thread of the call, was returned to one call only, and is no longer
\* in the map, so that no later call, for this or for another key, obtains
\* it.
PendingRecordConsumedOnce ==
  \A g \in consumed.got :
    /\ g.record.chatId = g.chatId
    /\ g.record.threadId = g.threadId
    /\ \A h \in consumed.got : h.record.serial = g.record.serial => h = g
    /\ \A k \in DOMAIN pendingDeliver :
         pendingDeliver[k].serial # g.record.serial

\* a record of a thread was returned while the record set for the same chat
\* without a thread, and one of another chat, are still pending
PendingRecordConsumedOnceWitness ==
  /\ \E g \in consumed.got : g.chatId = 1 /\ g.threadId # NoThread
  /\ PendingKey(1, NoThread) \in DOMAIN pendingDeliver
  /\ PendingKey(2, NoThread) \in DOMAIN pendingDeliver
  /\ Cardinality(consumed.got) = 1


\* The tool names the caller gave that are not empty, in the order given.
ProvidedTools == SelectSeq(toolParams.toolNames, LAMBDA name : name # <<>>)

\* The first spelling the caller gave of the tool whose lower-case name is n.
FirstSpelling(n) ==
  LET at == CHOOSE i \in 1..Len(ProvidedTools) :
              /\ ToLowerCase(ProvidedTools[i]) = n
              /\ \A j \in 1..(i - 1) : ToLowerCase(ProvidedTools[j]) # n
  IN ProvidedTools[at]

\* The summary looked up for lower-case name n: the built-in one, else the
\* caller's one whose key lower-cases to n, else none.
SummaryOf(n) ==
  IF n = ReadTool THEN <<"Read file contents">>
  ELSE IF n = ExecTool THEN <<"Run shell commands">>
  ELSE IF n = SpawnTool THEN <<"Spawn a sub-agent session">>
  ELSE IF \E i \in 1..Len(toolParams.toolSummaries) :
            ToLowerCase(toolParams.toolSummaries[i].key) = n
  THEN <<"plugin summary">>
  ELSE <<>>

\* The line of a tool: its name as first given, then its summary if any.
ExpectedLine(n) ==
  IF SummaryOf(n) = <<>> THEN <<"- ", FirstSpelling(n)>>
  ELSE <<"- ", FirstSpelling(n), ": ", SummaryOf(n)[1]>>

\* C21: tool names are matched without regard to case (one line per tool,
\* summaries and ordering by lower-case name, ordered tools before the others
\* and the others sorted), while each line and the skills sentence show the
\* name in the casing the caller first gave.
ToolCasingPreserved ==
  prompt.built =>
    LET lines == prompt.toolLines
        lows == {ToLowerCase(ProvidedTools[i]) : i \in 1..Len(ProvidedTools)}
        low(i) == ToLowerCase(lines[i][2])
    IN /\ Len(lines) = Cardinality(lows)
       /\ \A n \in lows : \E i \in 1..Len(lines) : lines[i] = ExpectedLine(n)
       /\ \A i, j \in 1..Len(lines) :
            i < j =>
              /\ InToolOrder(low(j)) => InToolOrder(low(i))
              /\ InToolOrder(low(i)) /\ InToolOrder(low(j)) =>
                   low(i) = ReadTool /\ low(j) = ExecTool
              /\ ~InToolOrder(low(i)) => NameLess(low(i), low(j))
       /\ toolParams.skillsPrompt =>
            /\ Len(prompt.skillsLine) = 3
            /\ prompt.skillsLine[2] =
                 IF ReadTool \in lows THEN FirstSpelling(ReadTool) ELSE ReadTool

\* the caller gave the read tool in two casings, capitalised first, an unknown
\* tool in mixed case with a summary keyed in another casing, and skills
ToolCasingWitness ==
  /\ prompt.built
  /\ toolParams.toolNames = <<<<"R">>, <<"r">>>>
  /\ toolParams.skillsPrompt
  /\ prompt.toolLines = <<<<"- ", <<"R">>, ": ", "Read file contents">>>>
  /\ prompt.skillsLine[2] = <<"R">>


\* The fields of the value resolveModel returned.
ResultFields == DOMAIN resolved.result

\* C26: resolveModel returns exactly one of model and error, and authStorage
\* and modelRegistry in every result.
ExactlyOneOfModelOrError ==
  resolved.done =>
    /\ ("model" \in ResultFields) # ("error" \in ResultFields)
    /\ "model" \in ResultFields => resolved.result.model.from # "undefined"
    /\ "authStorage" \in ResultFields
    /\ "modelRegistry" \in ResultFields

\* nothing resolves the model: the result is the error, with both stores
UnknownModelWitness ==
  /\ resolved.done
  /\ request.found = "null" /\ request.providers = <<>> /\ ~request.forwardCompat
  /\ "error" \in ResultFields
  /\ "model" \notin ResultFields
  /\ "authStorage" \in ResultFields

\* The config has a provider entry, of a key that normalises to the requested
\* provider, that defines the requested model id.
ConfigDefinesModel(allowBlankKey) ==
  \E i \in 1..Len(request.providers) :
    /\ NormalizeProviderId(request.providers[i].key)
         = NormalizeProviderId(request.provider)
    /\ allowBlankKey \/ Trim(request.providers[i].key) # <<>>
    /\ \E j \in 1..Len(request.providers[i].models) :
         request.providers[i].models[j].id = request.modelId

\* The config has a provider entry for the CLI named cli that defines the
\* requested model id.
CliDefinesModel(cli) ==
  \E i \in 1..Len(request.providers) :
    /\ NormalizeProviderId(request.providers[i].key) = cli
    /\ \E j \in 1..Len(request.providers[i].models) :
         request.providers[i].models[j].id = request.modelId

\* The returned model is the config-defined model of provider id wanted.
ReturnsInlineModelOf(wanted) ==
  /\ "model" \in ResultFields
  /\ resolved.result.model.from = "inline"
  /\ resolved.result.model.id = request.modelId
  /\ NormalizeProviderId(resolved.result.model.provider) = wanted

\* C27 as stated: whenever a config provider whose normalised id is the
\* normalised requested provider defines the requested model id, the model
\* returned is that config-defined one, whatever the registry holds.
InlineModelPreferred ==
  resolved.done /\ ConfigDefinesModel(TRUE) =>
    ReturnsInlineModelOf(NormalizeProviderId(request.provider))

\* C27, amended: whenever a config provider with a non-blank key whose
\* normalised id is the normalised requested provider defines the requested
\* model id, the model returned is config-defined, whatever the registry
\* holds: the codex-cli (claude-cli) one when the requested provider is
\* openai-codex (anthropic) and the config defines the id for that CLI too,
\* else the one of the requested provider.
InlineModelPreferredUnlessCli ==
  resolved.done /\ ConfigDefinesModel(FALSE) =>
    LET normalized == NormalizeProviderId(request.provider)
    IN IF normalized = <<"openai-codex">> /\ CliDefinesModel(<<"codex-cli">>)
       THEN ReturnsInlineModelOf(<<"codex-cli">>)
       ELSE IF normalized = <<"anthropic">> /\ CliDefinesModel(<<"claude-cli">>)
       THEN ReturnsInlineModelOf(<<"claude-cli">>)
       ELSE ReturnsInlineModelOf(normalized)

\* the registry holds the model too, the config key is spelled another way
\* than the request, and the config's model is the one returned
InlineModelPreferredWitness ==
  /\ resolved.done
  /\ request.found = "openai-responses"
  /\ request.provider = <<"custom">>
  /\ request.providers = <<[key |-> <<"Custom", Space>>, api |-> "openai-completions",
                            models |-> <<[id |-> <<"m">>, api |-> "undefined"]>>]>>
  /\ request.modelId = <<"m">>
  /\ resolved.result.model.from = "inline"
  /\ resolved.result.model.provider = <<"Custom">>

\* Some rule of resolveModel finds a config-defined model for the request.
SomeInlineModelMatches ==
  \/ ConfigDefinesModel(FALSE)
  \/ /\ NormalizeProviderId(request.provider) = <<"openai-codex">>
     /\ CliDefinesModel(<<"codex-cli">>)
  \/ /\ NormalizeProviderId(request.provider) = <<"anthropic">>
     /\ CliDefinesModel(<<"claude-cli">>)

\* The error is the unknown-model message for the request, with or without
\* a text after it.
IsUnknownModelError(error) ==
  /\ Len(error) \in {4, 6}
  /\ SubSeq(error, 1, 4) = <<"Unknown model: ", request.provider, "/", request.modelId>>

\* C28: the result is the unknown-model error exactly when the registry has
\* no such model, no config-defined model matches, no forward-compat model
\* resolves, the config has no entry under the exact provider key and the
\* model id does not start with mock-; the error ends with the setup hint
\* exactly when the provider in lower case is ollama or vllm, and has nothing
\* after the model id otherwise.
UnknownModelErrorIffNothingResolves ==
  resolved.done =>
    /\ "error" \in ResultFields <=>
         /\ request.found = "null"
         /\ ~SomeInlineModelMatches
         /\ ~request.forwardCompat
         /\ \A i \in 1..Len(request.providers) :
              request.providers[i].key # request.provider
         /\ ~StartsWithMock(request.modelId)
    /\ "error" \in ResultFields =>
         /\ IsUnknownModelError(resolved.result.error)
         /\ IF ProviderToLowerCase(request.provider) \in {<<"ollama">>, <<"vllm">>}
            THEN /\ Len(resolved.result.error) = 6
                 /\ resolved.result.error[6] \in {OllamaHint, VllmHint}
            ELSE Len(resolved.result.error) = 4

====
